---------------------------- MODULE Spec2Model ----------------------------
(***************************************************************************)
(* Model of the route-and-spot capture session of DrawRoad.tsx: the list   *)
(* of route points kept in the store, the list of resolved addresses, the  *)
(* spots, the drawing mode, the debounced place search, and the commands   *)
(* the component sends to the map service.                                 *)
(***************************************************************************)
EXTENDS Integers, Sequences, FiniteSets, TLC

VARIABLES
    routes,          \* useSelector(getRoutes): the route points, in order
    routeTaps,       \* history: for each route point, the tap that added it (0: seeded)
    spots,           \* useSelector(getSpots)
    mode,            \* useState(DrawMode.Road)
    searchQuery,     \* useState('')
    isFocus,         \* useState(false)
    places,          \* useState([])
    addresses,       \* useState<string[]>([])
    selectedSpot,    \* useState<number>()
    debounceRef,     \* searchQueryDebounceRef.current (0: null, else a timer id)
    timers,          \* timers set by setTimeout(..., 500) that have not run yet
    searching,       \* searchPlaces calls that have not returned yet
    resizes,         \* ms left of the resizeMap timers that have not run yet
    geocoding,       \* searchAddress calls that have not returned yet, with what they will return
    mountTimer,      \* the timers of the mount effects that have not run yet, with the lists they hold
    markers,         \* history: markers added to the map minus removeMarker commands
    taps,            \* history: number of map taps so far
    changes,         \* history: the search text changes, with the time since the previous one
    sinceChange,     \* history: ms since the last search text change, saturating at Delay
    calls,           \* history: the searchPlaces invocations
    cmds,            \* history: map service commands issued by the last step
    reqs,            \* history: lookup requests issued by the last step
    lastOp           \* history: the handler that ran last

vars == << routes, routeTaps, spots, mode, searchQuery, isFocus, places,
           addresses, selectedSpot, debounceRef, timers, searching, resizes,
           geocoding, mountTimer, markers, taps, changes, sinceChange, calls,
           cmds, reqs, lastOp >>

routeVars  == << routes, routeTaps, addresses, geocoding >>
spotVars   == << spots, selectedSpot >>
mountVars  == << mountTimer, markers >>
searchVars == << searchQuery, isFocus, places, debounceRef, timers, searching,
                 resizes, changes, sinceChange, calls >>

-----------------------------------------------------------------------------
(* Bounds *)

MaxTaps    == 3      \* map taps in one session
MaxChanges == 3      \* search text changes in one session

(* Program constants *)

Delay == 500         \* the debounce delay of handleChangeSearchQuery
ResizeDelay == 500   \* the delay of the resizeMap timer
Tick  == Delay \div 2   \* the granularity of the model's clock

Road == "road"
Spot == "spot"
DrawMode == {Road, Spot}

Nil == "<undefined>"
NoSpot == -1         \* selectedSpot is undefined

-----------------------------------------------------------------------------
(* The external collaborators' data *)

P1 == [latitude |-> 37, longitude |-> 127]
P2 == [latitude |-> 35, longitude |-> 129]
Points == {P1, P2}

\* What the map service's searchAddress resolves a coordinate to, when it succeeds.
SearchAddressResult(p) ==
    CASE p = P1 -> << [road_address_name |-> "Teheran-ro 1",
                       address_name |-> "Yeoksam-dong 1",
                       region_3depth_name |-> "Gangnam-gu"] >>
      [] p = P2 -> << [road_address_name |-> Nil,
                       address_name |-> "U-dong 2",
                       region_3depth_name |-> ""] >>
      [] OTHER  -> << >>

\* What searchAddress can return: no entry, or one entry with or without a road
\* address and with or without a general address, which carries the district.
RoadNames    == {Nil, "Teheran-ro 1", "Seolleung-ro 2", "Haeundae-ro 3"}
AddressNames == {"Yeoksam-dong 1", "U-dong 2", "Jung-dong 3"}
RegionNames  == {Nil, "", "Gangnam-gu", "U-dong"}
GeoResults ==
    { << >> }
    \cup { << [road_address_name |-> r, address_name |-> Nil, region_3depth_name |-> Nil] >> :
             r \in RoadNames \ {Nil} }
    \cup { << [road_address_name |-> r, address_name |-> a, region_3depth_name |-> g] >> :
             r \in RoadNames, a \in AddressNames, g \in RegionNames }

Place1 == [id |-> 1, place_name |-> "Namsan", y |-> 37, x |-> 127,
           road_address_name |-> "Namsan-ro 1"]
Place2 == [id |-> 2, place_name |-> "Namsan Tower", y |-> 35, x |-> 129,
           road_address_name |-> "Namsan-ro 2"]

Texts == {"", "a", "ab"}

\* What the map service's searchPlaces finds for a text, when it succeeds.
SearchPlacesResult(text) ==
    CASE text = "a"  -> << Place1, Place2 >>
      [] text = "ab" -> << Place2 >>
      [] OTHER       -> << >>

SpotModel(p) == [point |-> p, title |-> "", content |-> ""]

\* The store when the session opens: a new road, or a saved road being edited.
Seeds == { [routes |-> << >>, spots |-> << >>],
           [routes |-> << P1 >>, spots |-> << SpotModel(P2) >>] }

-----------------------------------------------------------------------------
(* The store's reducers *)

addRoute(r, p) == Append(r, p)
removeRoute(r) == IF Len(r) = 0 THEN r ELSE SubSeq(r, 1, Len(r) - 1)
addSpot(s, p) == Append(s, SpotModel(p))
removeSpot(s, index) ==
    IF index < 0 \/ index >= Len(s) THEN s
    ELSE SubSeq(s, 1, index) \o SubSeq(s, index + 2, Len(s))

\* an updater that returns the list as it is
SliceLastNone(prev) == prev

\* prev.slice(0, prev.length - 1)
SliceLast(prev) == IF Len(prev) <= 1 THEN << >> ELSE SubSeq(prev, 1, Len(prev) - 1)

\* a composition that prefers the general address to the road address
ComposeAddressGeneralFirst(result) ==
    LET first   == IF Len(result) > 0 THEN result[1]
                   ELSE [road_address_name |-> Nil, address_name |-> Nil,
                         region_3depth_name |-> Nil]
        address == IF first.address_name # Nil THEN first.address_name
                   ELSE IF first.road_address_name # Nil THEN first.road_address_name
                   ELSE ""
        region  == first.region_3depth_name
    IN  address \o (IF region # Nil /\ region # "" THEN " (" \o region \o ")" ELSE "")

\* the display string of a reverse geocode result
ComposeAddress(result) ==
    LET first   == IF Len(result) > 0 THEN result[1]
                   ELSE [road_address_name |-> Nil, address_name |-> Nil,
                         region_3depth_name |-> Nil]
        address == IF first.road_address_name # Nil THEN first.road_address_name
                   ELSE IF first.address_name # Nil THEN first.address_name
                   ELSE ""
        region  == first.region_3depth_name
    IN  address \o (IF region # Nil /\ region # "" THEN " (" \o region \o ")" ELSE "")

\* an effect that waits for the second point of the route
RoutesEffectReqsSecond(old, new) ==
    IF new # old /\ Len(new) = 2
    THEN << [type |-> "requestGetPlaces", point |-> new[1]] >>
    ELSE << >>

\* useEffect(..., [dispatch, routes]): runs when routes has changed
RoutesEffectReqs(old, new) ==
    IF new # old /\ Len(new) = 1
    THEN << [type |-> "requestGetPlaces", point |-> new[1]] >>
    ELSE << >>
RoutesEffectCmds(old, new) ==
    IF new # old /\ Len(new) = 1 THEN << [type |-> "removeCurrentLocationMarker"] >>
    ELSE << >>

-----------------------------------------------------------------------------
\* The session once the timers of its mount effects have run: the map shows
\* the lines and the markers of the saved road.  SpecMount starts earlier.
Init ==
    /\ \E seed \in Seeds : routes = seed.routes /\ spots = seed.spots
    /\ routeTaps = [i \in 1..Len(routes) |-> 0]
    /\ mode = Road
    /\ searchQuery = ""
    /\ isFocus = FALSE
    /\ places = << >>
    /\ addresses = << >>
    /\ selectedSpot = NoSpot
    /\ debounceRef = 0
    /\ timers = {}
    /\ searching = {}
    /\ resizes = {}
    /\ geocoding = {}
    /\ mountTimer = << >>
    /\ markers = Len(spots)
    /\ taps = 0
    /\ changes = << >>
    /\ sinceChange = Delay
    /\ calls = << >>
    /\ cmds = << >>
    /\ reqs = << >>
    /\ lastOp = "init"

-----------------------------------------------------------------------------
(* The route and spot handlers *)

\* a handler that also drops the selection when the mode is switched
handleClickModeDropsSelection(selectedMode) ==
    /\ ~isFocus
    /\ mode' = selectedMode
    /\ selectedSpot' = NoSpot
    /\ cmds' = << >>
    /\ reqs' = << >>
    /\ UNCHANGED mountVars
    /\ lastOp' = "handleClickMode"
    /\ UNCHANGED << routeVars, spots, searchVars, taps >>

\* handleClickMode: the menu items are rendered while the search input is not focused
handleClickMode(selectedMode) ==
    /\ ~isFocus
    /\ mode' = selectedMode
    /\ cmds' = << >>
    /\ reqs' = << >>
    /\ UNCHANGED mountVars
    /\ lastOp' = "handleClickMode"
    /\ UNCHANGED << routeVars, spotVars, searchVars, taps >>

\* handkleClickMap, mode === DrawMode.Road, up to the await of searchAddress
handkleClickMapRoad(p) ==
    /\ mode = Road
    /\ taps < MaxTaps
    /\ taps' = taps + 1
    /\ routes' = addRoute(routes, p)
    /\ routeTaps' = Append(routeTaps, taps + 1)
    /\ geocoding' = geocoding \cup { [tap |-> taps + 1, point |-> p,
                                       result |-> SearchAddressResult(p)] }
    /\ cmds' = << [type |-> "drawLine", point |-> p] >> \o RoutesEffectCmds(routes, routes')
    /\ reqs' = << [type |-> "searchAddress", point |-> p] >> \o RoutesEffectReqs(routes, routes')
    /\ UNCHANGED mountVars
    /\ lastOp' = "handkleClickMap"
    /\ UNCHANGED << addresses, spotVars, mode, searchVars >>

\* a handler that also draws a line to the spot
handkleClickMapSpotDrawsLine(p) ==
    /\ mode = Spot
    /\ taps < MaxTaps
    /\ taps' = taps + 1
    /\ spots' = addSpot(spots, p)
    /\ cmds' = << [type |-> "drawLine", point |-> p], [type |-> "addMarker", point |-> p] >>
    /\ reqs' = << >>
    /\ markers' = markers + 1
    /\ UNCHANGED mountTimer
    /\ lastOp' = "handkleClickMap"
    /\ UNCHANGED << routeVars, selectedSpot, mode, searchVars >>

\* handkleClickMap, the else branch
handkleClickMapSpot(p) ==
    /\ mode = Spot
    /\ taps < MaxTaps
    /\ taps' = taps + 1
    /\ spots' = addSpot(spots, p)
    /\ cmds' = << [type |-> "addMarker", point |-> p] >>
    /\ reqs' = << >>
    /\ markers' = markers + 1
    /\ UNCHANGED mountTimer
    /\ lastOp' = "handkleClickMap"
    /\ UNCHANGED << routeVars, selectedSpot, mode, searchVars >>

\* handkleClickMap after the await: searchAddress has returned a result
searchAddressResolved(g) ==
    /\ g \in geocoding
    /\ geocoding' = geocoding \ {g}
    /\ addresses' = Append(addresses, ComposeAddress(g.result))
    /\ cmds' = << >>
    /\ reqs' = << >>
    /\ UNCHANGED mountVars
    /\ lastOp' = "searchAddressResolved"
    /\ UNCHANGED << routes, routeTaps, spotVars, mode, searchVars, taps >>

\* handkleClickMap after the await: searchAddress has thrown, catch (error) {}
searchAddressRejected(g) ==
    /\ g \in geocoding
    /\ geocoding' = geocoding \ {g}
    /\ cmds' = << >>
    /\ reqs' = << >>
    /\ UNCHANGED mountVars
    /\ lastOp' = "searchAddressRejected"
    /\ UNCHANGED << routes, routeTaps, addresses, spotVars, mode, searchVars, taps >>

\* a handler that forgets setAddresses([])
handleClickClearRoadKeepsAddresses ==
    /\ routes' = << >>
    /\ routeTaps' = << >>
    /\ cmds' = << [type |-> "removeAllLines"] >> \o RoutesEffectCmds(routes, routes')
    /\ reqs' = RoutesEffectReqs(routes, routes')
    /\ UNCHANGED mountVars
    /\ lastOp' = "handleClickClearRoad"
    /\ UNCHANGED << addresses, geocoding, spotVars, mode, searchVars, taps >>

handleClickClearRoad ==
    /\ routes' = << >>
    /\ routeTaps' = << >>
    /\ addresses' = << >>
    /\ cmds' = << [type |-> "removeAllLines"] >> \o RoutesEffectCmds(routes, routes')
    /\ reqs' = RoutesEffectReqs(routes, routes')
    /\ UNCHANGED mountVars
    /\ lastOp' = "handleClickClearRoad"
    /\ UNCHANGED << geocoding, spotVars, mode, searchVars, taps >>

handleClickRevertRoad ==
    /\ routes' = removeRoute(routes)
    /\ routeTaps' = removeRoute(routeTaps)
    /\ addresses' = SliceLast(addresses)
    /\ cmds' = << [type |-> "removeLastLine"] >> \o RoutesEffectCmds(routes, routes')
    /\ reqs' = RoutesEffectReqs(routes, routes')
    /\ UNCHANGED mountVars
    /\ lastOp' = "handleClickRevertRoad"
    /\ UNCHANGED << geocoding, spotVars, mode, searchVars, taps >>

\* a handler that takes the item's position, which counts from one, as its index
handleClickSpotFromOne(index) ==
    /\ mode = Spot
    /\ index \in 0..(Len(spots) - 1)
    /\ selectedSpot' = index + 1
    /\ cmds' = << [type |-> "moveTo", point |-> spots[index + 1].point] >>
    /\ reqs' = << >>
    /\ UNCHANGED mountVars
    /\ lastOp' = "handleClickSpot"
    /\ UNCHANGED << routeVars, spots, mode, searchVars, taps >>

\* handleClickSpot: the spot list is rendered in spot mode, one item per spot
handleClickSpot(index) ==
    /\ mode = Spot
    /\ index \in 0..(Len(spots) - 1)
    /\ selectedSpot' = index
    /\ cmds' = << [type |-> "moveTo", point |-> spots[index + 1].point] >>
    /\ reqs' = << >>
    /\ UNCHANGED mountVars
    /\ lastOp' = "handleClickSpot"
    /\ UNCHANGED << routeVars, spots, mode, searchVars, taps >>

\* a handler that forgets to re-index the selection
SelectedAfterRemoveNoShift(selected, index) ==
    IF selected = NoSpot THEN selected
    ELSE IF index = selected THEN NoSpot
    ELSE selected

\* the selection after handleRemoveSpot: if (!isNil(selectedSpot)) { ... }
SelectedAfterRemove(selected, index) ==
    IF selected = NoSpot THEN selected
    ELSE IF index = selected THEN NoSpot
    ELSE IF index < selected THEN selected - 1
    ELSE selected

handleRemoveSpot(index) ==
    /\ mode = Spot
    /\ index \in 0..(Len(spots) - 1)
    /\ selectedSpot' = SelectedAfterRemove(selectedSpot, index)
    /\ spots' = removeSpot(spots, index)
    /\ cmds' = << [type |-> "removeMarker", index |-> index] >>
    /\ reqs' = << >>
    /\ markers' = markers - 1
    /\ UNCHANGED mountTimer
    /\ lastOp' = "handleRemoveSpot"
    /\ UNCHANGED << routeVars, mode, searchVars, taps >>

Next ==
    \/ \E m \in DrawMode : handleClickMode(m)
    \/ \E p \in Points : handkleClickMapRoad(p)
    \/ \E p \in Points : handkleClickMapSpot(p)
    \/ \E g \in geocoding : searchAddressResolved(g)
    \/ \E g \in geocoding : searchAddressRejected(g)
    \/ handleClickClearRoad
    \/ handleClickRevertRoad
    \/ \E i \in 0..(Len(spots) - 1) : handleClickSpot(i)
    \/ \E i \in 0..(Len(spots) - 1) : handleRemoveSpot(i)

Spec == Init /\ [][Next]_vars

-----------------------------------------------------------------------------
(* The place search: the input is rendered in road mode while the route is empty *)

SearchInputRendered == mode = Road /\ Len(routes) = 0

\* useEffect(..., [isFocus]): when isFocus has changed, resizeMap is called
\* ResizeDelay ms later; timers due at the same instant are kept as one
FocusEffect(pending, old, new) ==
    IF new # old THEN pending \cup {ResizeDelay} ELSE pending

Min(a, b) == IF a < b THEN a ELSE b

\* clearTimeout(id): the timer with this id will not run
clearTimeout(pending, id) == { t \in pending : t.id # id }

\* a handler that forgets to clear the timer it replaces
CancelPendingForgotten(pending, ref) == pending

\* if (searchQueryDebounceRef.current) { clearTimeout(searchQueryDebounceRef.current) }
CancelPending(pending, ref) == IF ref # 0 THEN clearTimeout(pending, ref) ELSE pending

\* !isEmpty(value)
ShouldSearch(value) == value # ""

\* handleChangeSearchQuery; a timer that is due runs before a later input event
handleChangeSearchQuery(value) ==
    /\ SearchInputRendered
    /\ Len(changes) < MaxChanges
    /\ \A t \in timers : t.remaining > 0
    /\ searchQuery' = value
    /\ timers' = CancelPending(timers, debounceRef)
                   \cup { [id |-> Len(changes) + 1, value |-> value, remaining |-> Delay] }
    /\ debounceRef' = Len(changes) + 1
    /\ changes' = Append(changes, [text |-> value, gap |-> sinceChange])
    /\ sinceChange' = 0
    /\ cmds' = << >>
    /\ reqs' = << >>
    /\ UNCHANGED mountVars
    /\ lastOp' = "handleChangeSearchQuery"
    /\ UNCHANGED << routeVars, spotVars, mode, isFocus, places, searching, resizes,
                    calls, taps >>

\* the setTimeout callback of handleChangeSearchQuery, up to the await of searchPlaces
debounceTimeout(t) ==
    /\ t \in timers
    /\ t.remaining = 0
    /\ timers' = timers \ {t}
    /\ IF ShouldSearch(t.value)
       THEN /\ searching' = searching \cup { [id |-> t.id, value |-> t.value] }
            /\ calls' = Append(calls, [id |-> t.id, text |-> t.value])
            /\ reqs' = << [type |-> "searchPlaces", text |-> t.value] >>
       ELSE /\ UNCHANGED << searching, calls >>
            /\ reqs' = << >>
    /\ cmds' = << >>
    /\ UNCHANGED mountVars
    /\ lastOp' = "debounceTimeout"
    /\ UNCHANGED << routeVars, spotVars, mode, searchQuery, isFocus, places,
                    debounceRef, resizes, changes, sinceChange, taps >>

\* the callback after the await: searchPlaces has returned the places found
searchPlacesResolved(s) ==
    /\ s \in searching
    /\ searching' = searching \ {s}
    /\ places' = SearchPlacesResult(s.value)
    /\ cmds' = << >>
    /\ reqs' = << >>
    /\ UNCHANGED mountVars
    /\ lastOp' = "searchPlacesResolved"
    /\ UNCHANGED << routeVars, spotVars, mode, searchQuery, isFocus, debounceRef,
                    timers, resizes, changes, sinceChange, calls, taps >>

\* the callback after the await: searchPlaces has thrown, catch (error) {}
searchPlacesRejected(s) ==
    /\ s \in searching
    /\ searching' = searching \ {s}
    /\ cmds' = << >>
    /\ reqs' = << >>
    /\ UNCHANGED mountVars
    /\ lastOp' = "searchPlacesRejected"
    /\ UNCHANGED << routeVars, spotVars, mode, searchQuery, isFocus, places,
                    debounceRef, timers, resizes, changes, sinceChange, calls, taps >>

handleFocus ==
    /\ SearchInputRendered
    /\ isFocus' = TRUE
    /\ resizes' = FocusEffect(resizes, isFocus, isFocus')
    /\ cmds' = << >>
    /\ reqs' = << >>
    /\ UNCHANGED mountVars
    /\ lastOp' = "handleFocus"
    /\ UNCHANGED << routeVars, spotVars, mode, searchQuery, places, debounceRef,
                    timers, searching, changes, sinceChange, calls, taps >>

\* handleClickSearchClose: the close button is rendered while the input is focused
handleClickSearchClose ==
    /\ SearchInputRendered
    /\ isFocus
    /\ isFocus' = FALSE
    /\ resizes' = FocusEffect(resizes, isFocus, isFocus')
    /\ cmds' = << >>
    /\ reqs' = << >>
    /\ UNCHANGED mountVars
    /\ lastOp' = "handleClickSearchClose"
    /\ UNCHANGED << routeVars, spotVars, mode, searchQuery, places, debounceRef,
                    timers, searching, changes, sinceChange, calls, taps >>

\* a handler that takes the chosen place as the first point of the route
handleClickPlaceAddsRoute(place) ==
    /\ SearchInputRendered
    /\ isFocus
    /\ \E i \in 1..Len(places) : places[i] = place
    /\ cmds' = << [type |-> "moveTo", point |-> [latitude |-> place.y, longitude |-> place.x]] >>
    /\ routes' = addRoute(routes, [latitude |-> place.y, longitude |-> place.x])
    /\ routeTaps' = Append(routeTaps, 0)
    /\ isFocus' = FALSE
    /\ resizes' = FocusEffect(resizes, isFocus, isFocus')
    /\ searchQuery' = place.place_name
    /\ reqs' = << >>
    /\ UNCHANGED mountVars
    /\ lastOp' = "handleClickPlace"
    /\ UNCHANGED << addresses, geocoding, spotVars, mode, places, debounceRef, timers,
                    searching, changes, sinceChange, calls, taps >>

\* a handler that forgets setFocus(false)
handleClickPlaceKeepsFocus(place) ==
    /\ SearchInputRendered
    /\ isFocus
    /\ \E i \in 1..Len(places) : places[i] = place
    /\ cmds' = << [type |-> "moveTo", point |-> [latitude |-> place.y, longitude |-> place.x]] >>
    /\ searchQuery' = place.place_name
    /\ reqs' = << >>
    /\ UNCHANGED mountVars
    /\ lastOp' = "handleClickPlace"
    /\ UNCHANGED << routeVars, spotVars, mode, isFocus, resizes, places, debounceRef,
                    timers, searching, changes, sinceChange, calls, taps >>

\* handleClickPlace: the place list is rendered while the input is focused
handleClickPlace(place) ==
    /\ SearchInputRendered
    /\ isFocus
    /\ \E i \in 1..Len(places) : places[i] = place
    /\ cmds' = << [type |-> "moveTo", point |-> [latitude |-> place.y, longitude |-> place.x]] >>
    /\ isFocus' = FALSE
    /\ resizes' = FocusEffect(resizes, isFocus, isFocus')
    /\ searchQuery' = place.place_name
    /\ reqs' = << >>
    /\ UNCHANGED mountVars
    /\ lastOp' = "handleClickPlace"
    /\ UNCHANGED << routeVars, spotVars, mode, places, debounceRef, timers,
                    searching, changes, sinceChange, calls, taps >>

\* the setTimeout callback of the isFocus effect
resizeTimeout ==
    /\ 0 \in resizes
    /\ resizes' = resizes \ {0}
    /\ cmds' = << [type |-> "resizeMap"] >>
    /\ reqs' = << >>
    /\ UNCHANGED mountVars
    /\ lastOp' = "resizeTimeout"
    /\ UNCHANGED << routeVars, spotVars, mode, searchQuery, isFocus, places,
                    debounceRef, timers, searching, changes, sinceChange, calls, taps >>

\* Tick ms pass; a timer runs when it is due, so time does not pass it by
Advance ==
    /\ timers # {} \/ resizes # {} \/ sinceChange < Delay
    /\ \A t \in timers : t.remaining >= Tick
    /\ \A r \in resizes : r >= Tick
    /\ timers' = { [t EXCEPT !.remaining = @ - Tick] : t \in timers }
    /\ resizes' = { r - Tick : r \in resizes }
    /\ sinceChange' = Min(sinceChange + Tick, Delay)
    /\ cmds' = << >>
    /\ reqs' = << >>
    /\ UNCHANGED mountVars
    /\ lastOp' = "tick"
    /\ UNCHANGED << routeVars, spotVars, mode, searchQuery, isFocus, places,
                    debounceRef, searching, changes, calls, taps >>

NextSearch ==
    \/ \E value \in Texts : handleChangeSearchQuery(value)
    \/ \E t \in timers : debounceTimeout(t)
    \/ \E s \in searching : searchPlacesResolved(s)
    \/ \E s \in searching : searchPlacesRejected(s)
    \/ handleFocus
    \/ handleClickSearchClose
    \/ \E place \in {Place1, Place2} : handleClickPlace(place)
    \/ resizeTimeout
    \/ Advance

SpecSearch == Init /\ [][NextSearch]_vars

-----------------------------------------------------------------------------
(* Properties of the route and its resolved addresses *)

Range(f) == { f[i] : i \in DOMAIN f }

\* the address the list shows for a point whose lookup has succeeded
AddressOf(p) == ComposeAddress(SearchAddressResult(p))

\* every tap so far was a road tap on a new road and none has been removed
OnlyRoadTaps == routeTaps = [i \in 1..taps |-> i]

\* C1: in every reachable state the list of resolved addresses is no longer
\* than the list of route points.
C1_AddressesWithinRoutes == Len(addresses) <= Len(routes)

\* C2: a reverse geocode that succeeds after its point has been removed from
\* the route (by revert or clear) leaves the resolved addresses unchanged.
C2_StaleGeocodeDropped ==
    [][ \A g \in geocoding :
          ( /\ lastOp' = "searchAddressResolved"
            /\ geocoding' = geocoding \ {g}
            /\ g.tap \notin Range(routeTaps) )
          => addresses' = addresses ]_vars

\* C3: in every reachable state each resolved address is the address of the
\* route point at the same index.
C3_AddressesAligned ==
    \A i \in 1..Len(addresses) :
        i <= Len(routes) => addresses[i] = AddressOf(routes[i])

\* C4: after a run of road taps on a new road, once no reverse geocode is
\* pending, there are as many resolved addresses as route points.
C4_SettledLengthsEqual ==
    (OnlyRoadTaps /\ geocoding = {}) => Len(addresses) = Len(routes)

\* C5: a reverse geocode that fails appends an empty placeholder to the
\* resolved addresses.
C5_FailurePlaceholder ==
    [][ lastOp' = "searchAddressRejected" => addresses' = Append(addresses, "") ]_vars

\* C6: revert on an empty route changes nothing of the route, the addresses,
\* the spots, the mode and the selection, and issues no map command.
C6_RevertEmptyNoop ==
    [][ (lastOp' = "handleClickRevertRoad" /\ Len(routes) = 0)
        => ( /\ UNCHANGED << routes, addresses, spots, mode, selectedSpot >>
             /\ cmds' = << >> ) ]_vars

\* C7: a revert that directly follows a clear changes nothing and issues no
\* map command, so clear then revert ends as clear alone does.
C7_ClearThenRevert ==
    [][ (lastOp = "handleClickClearRoad" /\ lastOp' = "handleClickRevertRoad")
        => ( /\ UNCHANGED << routes, addresses, spots, mode, selectedSpot, geocoding >>
             /\ cmds' = << >>
             /\ reqs' = << >> ) ]_vars

-----------------------------------------------------------------------------
(* Properties of the debounced place search *)

\* the searchPlaces invocations made by the timers of these text changes
CallsOf(ids) == { c \in 1..Len(calls) : calls[c].id \in ids }

\* changes k-2, k-1 and k each came less than Delay ms after the one before
Rapid(k) == k >= 3 /\ changes[k].gap < Delay /\ changes[k - 1].gap < Delay

\* change k was followed by Delay ms without a change, and its timer has run
Quiet(k) ==
    IF k = Len(changes) THEN sinceChange >= Delay /\ timers = {}
    ELSE changes[k + 1].gap >= Delay

\* C8 as stated: three rapid text changes followed by Delay ms of quiet make
\* exactly one searchPlaces invocation, with the text of the last change.
C8_ThreeChangesOneSearch ==
    \A k \in 1..Len(changes) :
        (Rapid(k) /\ Quiet(k))
        => ( /\ Cardinality(CallsOf({k - 2, k - 1, k})) = 1
             /\ \A c \in CallsOf({k - 2, k - 1, k}) : calls[c].text = changes[k].text )

\* C8 amended: three rapid text changes followed by Delay ms of quiet make
\* exactly one searchPlaces invocation, with the text of the last change, when
\* that text is not empty, and no invocation when it is empty.
C8_ThreeChangesOneSearchUnlessEmpty ==
    \A k \in 1..Len(changes) :
        (Rapid(k) /\ Quiet(k))
        => IF changes[k].text # ""
           THEN /\ Cardinality(CallsOf({k - 2, k - 1, k})) = 1
                /\ \A c \in CallsOf({k - 2, k - 1, k}) :
                       calls[c].id = k /\ calls[c].text = changes[k].text
           ELSE CallsOf({k - 2, k - 1, k}) = {}

\* three rapid changes ending in a text that is not empty have settled into one search
C8_Witness ==
    \E k \in 1..Len(changes) :
        /\ Rapid(k) /\ Quiet(k)
        /\ changes[k].text # ""
        /\ changes[k - 1].text # changes[k].text
        /\ Cardinality(CallsOf({k - 2, k - 1, k})) = 1

\* C9: the result of a search whose text has been superseded by a later text
\* change is never applied to the places.
C9_SupersededSearchIgnored ==
    [][ \A s \in searching :
          ( /\ lastOp' = "searchPlacesResolved"
            /\ searching' = searching \ {s}
            /\ s.id # Len(changes) )
          => places' = places ]_vars

\* C10: in every reachable state at most one searchPlaces call is in flight.
C10_AtMostOneSearchInFlight == Cardinality(searching) <= 1

-----------------------------------------------------------------------------
(* Properties of the spots and the selection *)

\* C11: removing spot k clears the selection when spot k is selected, moves it
\* down by one when a later spot is selected, and leaves it alone when an
\* earlier spot or no spot is selected.
C11_RemoveSpotSelection ==
    [][ lastOp' = "handleRemoveSpot"
        => LET k == cmds'[1].index
           IN  /\ selectedSpot = k => selectedSpot' = NoSpot
               /\ (selectedSpot # NoSpot /\ selectedSpot > k) => selectedSpot' = selectedSpot - 1
               /\ (selectedSpot # NoSpot /\ selectedSpot < k) => selectedSpot' = selectedSpot
               /\ selectedSpot = NoSpot => selectedSpot' = NoSpot ]_vars

\* spot 0 has just been removed and the selection is now 0: it was 1 before
C11_Witness ==
    /\ lastOp = "handleRemoveSpot"
    /\ cmds = << [type |-> "removeMarker", index |-> 0] >>
    /\ selectedSpot = 0

-----------------------------------------------------------------------------
(* Properties of the search text and the places *)

\* C12: a change of the search text to the empty text sets searchQuery to the
\* empty text, leaves no earlier timer pending, empties the places and issues
\* no searchPlaces request, at once or when its own timer runs.
C12_EmptyTextClears ==
    /\ [][ (lastOp' = "handleChangeSearchQuery" /\ changes'[Len(changes')].text = "")
           => ( /\ searchQuery' = ""
                /\ \A t \in timers' : t.id = Len(changes')
                /\ places' = << >>
                /\ reqs' = << >> ) ]_vars
    /\ [](\A c \in 1..Len(calls) : calls[c].text # "")

-----------------------------------------------------------------------------
(* Properties of the first route point *)

\* the requests of this type among the requests of a step
OfType(seq, type) == { i \in 1..Len(seq) : seq[i].type = type }

\* C13: the step that takes the route from no point to one point issues one
\* requestGetPlaces carrying that point and removeCurrentLocationMarker.
C13_FirstPointEffect ==
    [][ (Len(routes) = 0 /\ Len(routes') = 1)
        => ( /\ Cardinality(OfType(reqs', "requestGetPlaces")) = 1
             /\ \A i \in OfType(reqs', "requestGetPlaces") : reqs'[i].point = routes'[1]
             /\ Cardinality(OfType(cmds', "removeCurrentLocationMarker")) = 1 ) ]_vars

\* the first point of a road has just been tapped and its places are requested
C13_Witness ==
    /\ lastOp = "handkleClickMap"
    /\ Len(routes) = 1
    /\ routeTaps[1] # 0
    /\ OfType(reqs, "requestGetPlaces") # {}

-----------------------------------------------------------------------------
(* Properties of choosing a place *)

\* the candidate places the map has just been moved to
MovedTo(list, cmd) ==
    { i \in 1..Len(list) : cmd.point = [latitude |-> list[i].y, longitude |-> list[i].x] }

\* C14: choosing a place leaves the route, the addresses, the spots and the
\* selection unchanged, issues one moveTo to the place's coordinates as its
\* only map command, and issues no searchAddress or place search request.
C14_SelectPlaceFrame ==
    [][ lastOp' = "handleClickPlace"
        => ( /\ UNCHANGED << routes, addresses, spots, selectedSpot >>
             /\ Len(cmds') = 1
             /\ cmds'[1].type = "moveTo"
             /\ MovedTo(places, cmds'[1]) # {}
             /\ reqs' = << >>
             /\ UNCHANGED << geocoding, searching, timers >> ) ]_vars

\* a place has just been chosen and the map moved to it
C14_Witness ==
    /\ lastOp = "handleClickPlace"
    /\ cmds = << [type |-> "moveTo", point |-> P2] >>
    /\ Len(routes) = 0

\* C15 as stated: after choosing a place searchQuery is the place's name, the
\* input is not focused and the places are empty.
C15_SelectPlaceClears ==
    [][ lastOp' = "handleClickPlace"
        => ( /\ \E i \in MovedTo(places, cmds'[1]) : searchQuery' = places[i].place_name
             /\ isFocus' = FALSE
             /\ places' = << >> ) ]_vars

\* C15 amended: after choosing a place searchQuery is the place's name and the
\* input is not focused, so the place list is no longer rendered; the places
\* themselves are unchanged.
C15_SelectPlaceHidesList ==
    [][ lastOp' = "handleClickPlace"
        => ( /\ \E i \in MovedTo(places, cmds'[1]) : searchQuery' = places[i].place_name
             /\ isFocus' = FALSE
             /\ places' = places ) ]_vars

\* a place has just been chosen: its name is the search text and the places remain
C15_Witness ==
    /\ lastOp = "handleClickPlace"
    /\ searchQuery = Place2.place_name
    /\ ~isFocus
    /\ places = << Place1, Place2 >>

-----------------------------------------------------------------------------
(* Frame properties of clear, mode switch and spot tap *)

\* C16: clear empties the route and the addresses and issues removeAllLines as
\* its only map command; the spots, the selection and the mode are unchanged.
C16_ClearRouteFrame ==
    [][ lastOp' = "handleClickClearRoad"
        => ( /\ routes' = << >>
             /\ addresses' = << >>
             /\ cmds' = << [type |-> "removeAllLines"] >>
             /\ UNCHANGED << spots, selectedSpot, mode >> ) ]_vars

\* the route has just been cleared while a lookup is pending and a spot is selected
C16_Witness ==
    /\ lastOp = "handleClickClearRoad"
    /\ routes = << >>
    /\ geocoding # {}
    /\ Len(spots) > 0
    /\ selectedSpot # NoSpot

\* C17: the mode is always road or spot, and a mode switch leaves the route,
\* the addresses, the spots and the selection unchanged and issues no map command.
C17_SetModeFrame ==
    /\ [](mode \in DrawMode)
    /\ [][ lastOp' = "handleClickMode"
           => ( /\ UNCHANGED << routes, addresses, spots, selectedSpot >>
                /\ cmds' = << >> ) ]_vars

\* the mode has just been switched to spot on a road with points, spots and a selection
C17_Witness ==
    /\ lastOp = "handleClickMode"
    /\ mode = Spot
    /\ Len(routes) > 0
    /\ Len(spots) > 0
    /\ selectedSpot # NoSpot

\* C20: a map tap in spot mode appends one spot at the tapped point with empty
\* title and content and issues one addMarker at that point as its only map
\* command; the route and the addresses are unchanged and no searchAddress
\* request is made.
C20_SpotTapFrame ==
    [][ (lastOp' = "handkleClickMap" /\ mode = Spot)
        => \E p \in Points :
             /\ spots' = Append(spots, [point |-> p, title |-> "", content |-> ""])
             /\ cmds' = << [type |-> "addMarker", point |-> p] >>
             /\ reqs' = << >>
             /\ UNCHANGED << routes, addresses, geocoding >> ]_vars

\* a spot has just been added by a tap on a road that has points
C20_Witness ==
    /\ lastOp = "handkleClickMap"
    /\ mode = Spot
    /\ Len(routes) > 0
    /\ Len(cmds) = 1
    /\ cmds[1].type = "addMarker"
    /\ spots[Len(spots)].point = cmds[1].point

-----------------------------------------------------------------------------
(* Properties of a failed place search *)

\* C19: when a searchPlaces call fails the places become the empty list.
C19_SearchFailureEmpties ==
    [][ lastOp' = "searchPlacesRejected" => places' = << >> ]_vars

-----------------------------------------------------------------------------
(* The composition of the display string, over every shape of result *)

\* a new road right after its first tap, whose lookup will return any result
InitCompose ==
    /\ \E p \in Points, r \in GeoResults :
         /\ routes = << p >>
         /\ geocoding = { [tap |-> 1, point |-> p, result |-> r] }
         /\ cmds = << [type |-> "drawLine", point |-> p] >> \o RoutesEffectCmds(<< >>, routes)
         /\ reqs = << [type |-> "searchAddress", point |-> p] >> \o RoutesEffectReqs(<< >>, routes)
    /\ routeTaps = << 1 >>
    /\ taps = 1
    /\ lastOp = "handkleClickMap"
    /\ spots = << >>
    /\ mode = Road
    /\ searchQuery = ""
    /\ isFocus = FALSE
    /\ places = << >>
    /\ addresses = << >>
    /\ selectedSpot = NoSpot
    /\ mountTimer = << >>
    /\ markers = 0
    /\ debounceRef = 0
    /\ timers = {}
    /\ searching = {}
    /\ resizes = {}
    /\ changes = << >>
    /\ sinceChange = Delay
    /\ calls = << >>

NextCompose ==
    \/ \E g \in geocoding : searchAddressResolved(g)
    \/ \E g \in geocoding : searchAddressRejected(g)

SpecCompose == InitCompose /\ [][NextCompose]_vars

\* a name is present when the result has it and it is not empty
Present(name) == name # Nil /\ name # ""

\* C18: when a lookup returns an entry with a road address or a general
\* address, the string appended is the road address name if there is one, else
\* the general address name, followed by " (district)" when the district name
\* is present and by nothing when it is not.
C18_ComposedAddress ==
    [][ \A g \in geocoding :
          ( /\ lastOp' = "searchAddressResolved"
            /\ geocoding' = geocoding \ {g}
            /\ Len(g.result) > 0 )
          => LET first == g.result[1]
                 name  == IF first.road_address_name # Nil THEN first.road_address_name
                          ELSE first.address_name
             IN  addresses' = Append(addresses,
                     IF Present(first.region_3depth_name)
                     THEN name \o " (" \o first.region_3depth_name \o ")"
                     ELSE name) ]_vars

\* the lookup of the example has returned: road address and district
C18_Witness ==
    /\ lastOp = "searchAddressResolved"
    /\ addresses = << "Teheran-ro 1 (Gangnam-gu)" >>

-----------------------------------------------------------------------------
(* The session from its mount, before the timers of the mount effects run *)

\* getQueryParam('lat'), getQueryParam('long'): absent, or a location
QueryLocations == { << >>, << P2 >> }

\* the effects that dispatch when the component is mounted, in their order:
\* useEffect(..., [dispatch, routes]) and useEffect(..., []); the map is not
\* rendered yet, so removeCurrentLocationMarker is not sent
MountReqs(r) ==
    (IF Len(r) = 1 THEN << [type |-> "requestGetPlaces", point |-> r[1]] >> ELSE << >>)
    \o (IF Len(r) > 0 THEN << [type |-> "requestGetPlaces", point |-> r[1]] >> ELSE << >>)

\* spots.toArray().map(spot => ({latitude, longitude}))
PointsOf(s) == [i \in 1..Len(s) |-> s[i].point]

\* the commands of the third mount timer
MountMoveCmds(r, loc) ==
    IF Len(r) > 0 THEN << [type |-> "moveTo", point |-> r[1]] >>
    ELSE IF Len(loc) > 0
         THEN << [type |-> "moveTo", point |-> loc[1]],
                 [type |-> "addCurrentLocationMarker", point |-> loc[1]] >>
         ELSE << >>

\* the component has just been mounted: its mount effects have set their timers,
\* which hold the routes and the spots of that render
InitMount ==
    /\ \E seed \in Seeds : routes = seed.routes /\ spots = seed.spots
    /\ routeTaps = [i \in 1..Len(routes) |-> 0]
    /\ mode = Road
    /\ searchQuery = ""
    /\ isFocus = FALSE
    /\ places = << >>
    /\ addresses = << >>
    /\ selectedSpot = NoSpot
    /\ debounceRef = 0
    /\ timers = {}
    /\ searching = {}
    /\ resizes = {}
    /\ geocoding = {}
    /\ mountTimer = << [routes |-> routes, spots |-> spots] >>
    /\ markers = 0
    /\ taps = 0
    /\ changes = << >>
    /\ sinceChange = Delay
    /\ calls = << >>
    /\ cmds = << >>
    /\ reqs = MountReqs(routes)
    /\ lastOp = "mount"

\* timers that read the spots of the store when they run
mountTimeoutCurrentSpots ==
    /\ mountTimer # << >>
    /\ \E loc \in QueryLocations :
         cmds' = << [type |-> "drawLines", points |-> routes],
                    [type |-> "addMarkers", points |-> PointsOf(spots)] >>
                 \o MountMoveCmds(routes, loc)
    /\ markers' = markers + Len(spots)
    /\ mountTimer' = << >>
    /\ reqs' = << >>
    /\ lastOp' = "mountTimeout"
    /\ UNCHANGED << routeVars, spotVars, mode, searchVars, taps >>

\* the three setTimeout(..., requestMapTimeout) callbacks of the mount effects,
\* which are due together and run one after the other
mountTimeout ==
    /\ mountTimer # << >>
    /\ \E loc \in QueryLocations :
         cmds' = << [type |-> "drawLines", points |-> mountTimer[1].routes],
                    [type |-> "addMarkers", points |-> PointsOf(mountTimer[1].spots)] >>
                 \o MountMoveCmds(mountTimer[1].routes, loc)
    /\ markers' = markers + Len(mountTimer[1].spots)
    /\ mountTimer' = << >>
    /\ reqs' = << >>
    /\ lastOp' = "mountTimeout"
    /\ UNCHANGED << routeVars, spotVars, mode, searchVars, taps >>

\* the mount timers among the handlers that change the spots, the selection or
\* the mode; the handlers of the route leave the spots and the markers as they are
NextMount ==
    \/ \E m \in DrawMode : handleClickMode(m)
    \/ \E p \in Points : handkleClickMapSpot(p)
    \/ \E i \in 0..(Len(spots) - 1) : handleClickSpot(i)
    \/ \E i \in 0..(Len(spots) - 1) : handleRemoveSpot(i)
    \/ mountTimeout

SpecMount == InitMount /\ [][NextMount]_vars

-----------------------------------------------------------------------------
(* Properties of taking back the last route point *)

\* C21: taking back the last point of a route that has points removes the last
\* route point and nothing else of the route, removes the last address when
\* there is one, issues removeLastLine once, and leaves the spots and the mode.
C21_RevertRemovesLast ==
    [][ (lastOp' = "handleClickRevertRoad" /\ Len(routes) > 0)
        => ( /\ routes' = SubSeq(routes, 1, Len(routes) - 1)
             /\ addresses' = IF Len(addresses) > 0
                             THEN SubSeq(addresses, 1, Len(addresses) - 1)
                             ELSE addresses
             /\ Cardinality(OfType(cmds', "removeLastLine")) = 1
             /\ UNCHANGED << spots, mode >> ) ]_vars

\* the last of several points has just been taken back together with its address
C21_Witness ==
    /\ lastOp = "handleClickRevertRoad"
    /\ Len(routes) >= 1
    /\ Len(addresses) = Len(routes)
    /\ OfType(cmds, "removeLastLine") # {}

-----------------------------------------------------------------------------
(* Properties of the selected spot *)

\* C22: in every state the selected spot is undefined or an index of the
\* spot list, from 0 up to the number of spots minus one.
C22_SelectedSpotValid ==
    selectedSpot = NoSpot \/ (0 <= selectedSpot /\ selectedSpot < Len(spots))

\* a spot before the selected one has just been removed and the selection,
\* moved down by one, is the last spot
C22_Witness ==
    /\ lastOp = "handleRemoveSpot"
    /\ selectedSpot # NoSpot
    /\ selectedSpot = Len(spots) - 1

-----------------------------------------------------------------------------
(* Properties of the places request *)

\* C23: requestGetPlaces is issued only by a step that takes the route from no
\* point to one point, and taking back the last point issues neither
\* requestGetPlaces nor removeCurrentLocationMarker.
C23_PlacesRequestOnlyOnFirstPoint ==
    [][ /\ OfType(reqs', "requestGetPlaces") # {}
           => (Len(routes) = 0 /\ Len(routes') = 1)
        /\ lastOp' = "handleClickRevertRoad"
           => ( /\ OfType(reqs', "requestGetPlaces") = {}
                /\ OfType(cmds', "removeCurrentLocationMarker") = {} ) ]_vars

-----------------------------------------------------------------------------
(* Properties of the markers *)

\* a removeMarker command carries the index of the spot its step removes
RemoveMarkerMatchesSpot ==
    [][ OfType(cmds', "removeMarker") # {}
        => ( /\ Len(cmds') = 1
             /\ cmds'[1].index \in 0..(Len(spots) - 1)
             /\ spots' = removeSpot(spots, cmds'[1].index) ) ]_vars

\* C24 as stated: in every state the markers added, by addMarker and by the
\* addMarkers of the mount, minus the removeMarker commands are as many as the
\* spots, and removeMarker carries the index of the spot removed in its step.
C24_MarkersMatchSpots ==
    /\ [](markers = Len(spots))
    /\ RemoveMarkerMatchesSpot

\* C24: once the timers of the mount effects have run, the markers added minus
\* the removeMarker commands are as many as the spots; and in every step
\* removeMarker carries the index of the spot removed in that step.
C24_MarkersMatchSpotsOnceMounted ==
    /\ [](mountTimer = << >> => markers = Len(spots))
    /\ RemoveMarkerMatchesSpot

\* the mount timers have just run in a session that already had map taps, and
\* with the markers they added the map holds two markers for two spots
C24_Witness ==
    /\ lastOp = "mountTimeout"
    /\ taps >= 1
    /\ Len(spots) = 2
    /\ markers = 2
    /\ OfType(cmds, "addMarkers") # {}

====
